---- MODULE Spec2Model ----
(***************************************************************************)
(* Model of the agent/provider orchestration of ai-hedge-fund:             *)
(*   src/agents/__init__.py      analyze_market (fan-out / fan-in)         *)
(*   src/agents/specialized.py   the five agents' analyze coroutines       *)
(*   src/providers/*.py          create_message and the error taxonomy     *)
(* One request is one call of analyze_market.  The code of analyze_market  *)
(* up to the gather runs without an await; it is split into its three      *)
(* blocks (providers, agents, tasks).  Each agent task is split at its     *)
(* awaits (redis client, redis get, provider call, redis set): those are   *)
(* the only points where the event loop can interleave tasks.              *)
(***************************************************************************)
EXTENDS Integers, Sequences, FiniteSets, TLC

VARIABLES
    provider_map,     \* argument: the requested providers, in order (<<>>: None or empty)
    agent_type,       \* argument: "none" or the selector string
    env_keys,         \* the providers whose API key is set in the environment
    show_reasoning,   \* argument
    market_data,      \* argument: shape of the snapshot ("ok", "empty")
    price_data,       \* argument: shape of the price history ("ok", "empty")
    phase,            \* where analyze_market is
    provider_configs, \* dict provider -> default model, as its keys in insertion order
    agents,           \* dict agent_name -> agent, as a sequence in insertion order
    tasks,            \* agent_name -> the state of its task
    results,          \* the list gather returned
    returned,         \* the dict analyze_market returned
    error,            \* the exception analyze_market raised ("" when none)
    cache,            \* the redis store: cache_key -> stored value
    clock,            \* the current hour (datetime.now(), hour granularity)
    other_call,       \* a MarketDataAgent.analyze call of another request on the same store
    percent_change_24h, \* argument: quote['percent_change_24h'] of the snapshot
    backend_answer,   \* the text the model backend answers with
    handler,          \* get_crypto_analysis: one HTTP request for an analysis
    cmc,              \* a CMCClient and the aiohttp sessions it has created
    market_provider   \* a CryptoMarketProvider: the lru_cache of get_market_data and its callers

vars == <<provider_map, agent_type, env_keys, show_reasoning, market_data,
          price_data, phase, provider_configs, agents, tasks, results,
          returned, error, cache, clock, other_call, percent_change_24h,
          backend_answer, handler, cmc, market_provider>>

request == <<provider_map, agent_type, env_keys, show_reasoning, market_data,
             price_data, percent_change_24h>>

\* what no step of analyze_market or of an agent changes
services == <<backend_answer, handler, cmc, market_provider>>

----------------------------------------------------------------------------
(* Bounds of the model *)

MaxProviders == 5      \* longest provider list of a request
MaxHour == 1           \* last hour the clock reaches

(* Program constants *)

RetryBound == 3        \* retry_count < 3 in _handle_provider_error

Providers == {"anthropic", "openai"}

\* agent_mapping, in the order the dict literal lists its keys
AgentTypes == <<"market", "sentiment", "technical", "risk", "portfolio">>

agent_mapping(t) ==
    CASE t = "market" -> "market_data_agent"
      [] t = "sentiment" -> "sentiment_agent"
      [] t = "technical" -> "technical_agent"
      [] t = "risk" -> "risk_management_agent"
      [] t = "portfolio" -> "portfolio_agent"

KnownTypes == {AgentTypes[i] : i \in 1..Len(AgentTypes)}

AgentNames == {agent_mapping(t) : t \in KnownTypes}

EmptyMap == [x \in {} |-> x]

Range(s) == {s[i] : i \in 1..Len(s)}

\* all sequences over S of length 0..n
RECURSIVE SeqsUpTo(_, _)
SeqsUpTo(S, n) ==
    IF n = 0 THEN {<<>>}
    ELSE LET shorter == SeqsUpTo(S, n - 1)
         IN  shorter \cup {Append(s, x) : s \in {t \in shorter : Len(t) = n - 1}, x \in S}

----------------------------------------------------------------------------
(* Values *)

\* What an agent task ends with.  analyze returns a str: a text (tag "Ok") or
\* one of its "Error ..." strings (tag "Err", kind: what was caught).  A task
\* whose coroutine raised ends with the exception object (tag "Exc").
Ok(text) == [tag |-> "Ok", kind |-> "", text |-> text]
Err(kind) == [tag |-> "Err", kind |-> kind, text |-> <<>>]
Exc(kind) == [tag |-> "Exc", kind |-> kind, text |-> <<>>]
NoResult == [tag |-> "", kind |-> "", text |-> <<>>]

\* A text is the sequence of its lines (split('\n') / '\n'.join) and a line
\* the sequence of its parts: a blank part (whitespace), one of the discourse
\* markers, or other words.
Blank == " "

\* startswith(('Because', 'This is based on', 'Given that', 'Considering'))
Markers == {"Because", "This is based on", "Given that", "Considering"}

\* The backend's answer of the requests that do not vary it: one reasoning
\* line and one other line.
DefaultResponse == <<<<"Because", "volume rose">>, <<"Market is strong">>>>

\* response = await self.provider.create_message(prompt)
RawResponse == backend_answer

\* line.strip(): the line without its leading and trailing blanks
RECURSIVE strip(_)
strip(line) ==
    IF line = <<>> THEN <<>>
    ELSE IF Head(line) = Blank THEN strip(Tail(line))
    ELSE IF line[Len(line)] = Blank THEN strip(SubSeq(line, 1, Len(line) - 1))
    ELSE line

startswith(line, prefixes) == line # <<>> /\ Head(line) \in prefixes

\* (variant) the marker is looked for at the very start of the line
FilterReasoning_unstripped(lines) ==
    SelectSeq(lines, LAMBDA l : ~startswith(l, Markers))

\* lines 108-113: drop the lines that, stripped, start with a discourse marker
FilterReasoning(lines) ==
    SelectSeq(lines, LAMBDA l : ~startswith(strip(l), Markers))

\* json.dumps / json.loads of the analysis string
json_dumps(analysis) == [json |-> analysis]
json_loads(value) == value.json

\* f"{symbol}:{price}:{percent_change_24h}:{%Y-%m-%d-%H}"
CacheKey(hour) == <<"BTC", 100, 12, hour>>

----------------------------------------------------------------------------
(* Provider adapters: create_message *)

\* What the backend call (client.ainvoke) does: it answers, or raises an
\* exception whose message is one of these.
BackendFailures == {"authentication", "rate limit", "rate", "connection", "other"}
BackendOutcomes == {"ok"} \cup BackendFailures

\* `kw in str(e).lower()`
Contains(msg, kw) == msg = kw \/ (msg = "rate limit" /\ kw = "rate")

\* OpenAIProvider.create_message, the except branch
openai_classify(msg) ==
    IF Contains(msg, "authentication") THEN "ProviderAuthenticationError"
    ELSE IF Contains(msg, "rate") THEN "ProviderQuotaError"
    ELSE IF Contains(msg, "connection") THEN "ProviderConnectionError"
    ELSE "ModelProviderError"

\* AnthropicProvider.create_message, the except branch
anthropic_classify(msg) ==
    IF Contains(msg, "authentication") THEN "ProviderAuthenticationError"
    ELSE IF Contains(msg, "rate limit") THEN "ProviderQuotaError"
    ELSE IF Contains(msg, "connection") THEN "ProviderConnectionError"
    ELSE "ModelProviderError"

\* (variant) the backend call is wrapped in the retry of _make_api_request:
\* a failure of any kind is raised after the third attempt
create_message_retrying(provider, outcome) ==
    IF outcome = "ok"
    THEN [raised |-> "", content |-> RawResponse, backend_calls |-> 1, answers |-> 1,
          fallback_calls |-> 0]
    ELSE [raised |-> IF provider = "openai" THEN openai_classify(outcome)
                     ELSE anthropic_classify(outcome),
          content |-> <<>>, backend_calls |-> RetryBound, answers |-> 0,
          fallback_calls |-> 0]

\* create_message of the agent's provider: one backend call, whose answer is
\* returned and whose failure is classified and raised.  Neither adapter
\* calls _handle_provider_error or _make_api_request: there is no second call
\* on the same provider (backend_calls) and no call of a fallback provider
\* (fallback_calls).
create_message(provider, outcome) ==
    IF outcome = "ok"
    THEN [raised |-> "", content |-> RawResponse, backend_calls |-> 1, answers |-> 1,
          fallback_calls |-> 0]
    ELSE [raised |-> IF provider = "openai" THEN openai_classify(outcome)
                     ELSE anthropic_classify(outcome),
          content |-> <<>>, backend_calls |-> 1, answers |-> 0, fallback_calls |-> 0]

----------------------------------------------------------------------------
(* analyze_market, lines 43-69: provider configurations and API keys *)

NoError == [type |-> "", msg |-> ""]

KeyMissing(p) ==
    [type |-> "ValueError",
     msg |-> IF p = "anthropic" THEN "ANTHROPIC_API_KEY not found in environment variables"
             ELSE "OPENAI_API_KEY not found in environment variables"]

\* provider_configs[provider] = ...: a new key goes last, a known key keeps its place
dict_insert(keys, p) == IF p \in Range(keys) THEN keys ELSE Append(keys, p)

\* the for loop over providers, from position i on
RECURSIVE resolve_providers(_, _, _, _)
resolve_providers(providers, keys_set, i, configs) ==
    IF i > Len(providers) THEN [error |-> NoError, configs |-> configs]
    ELSE IF providers[i] \notin keys_set
         THEN [error |-> KeyMissing(providers[i]),
               configs |-> dict_insert(configs, providers[i])]
         ELSE resolve_providers(providers, keys_set, i + 1,
                                dict_insert(configs, providers[i]))

ResolveProviders ==
    /\ phase = "start"
    /\ LET r == resolve_providers(provider_map, env_keys, 1, <<>>)
       IN  /\ provider_configs' = r.configs
           /\ error' = r.error
           /\ phase' = IF r.error = NoError THEN "providers_resolved" ELSE "failed"
    /\ UNCHANGED <<services, other_call, request, agents, tasks, results, returned, cache, clock>>

----------------------------------------------------------------------------
(* analyze_market, lines 80-104: the agents and their providers *)

\* (variant) the index is clamped to the list instead of wrapping around
round_robin_clamped(i, n) == IF i < n THEN i ELSE n - 1

\* provider_list[i % len(provider_list)], i counted from 0
round_robin(i, n) == i % n

\* (variant) the agent is constructed without its provider
new_agent_unassigned(t, provider) == [name |-> agent_mapping(t), provider |-> "unassigned"]

\* agent_class(model_name=..., api_key=..., provider_name=provider)
new_agent(t, provider) == [name |-> agent_mapping(t), provider |-> provider]

\* (variant) a single agent is given the last provider of the list
build_agents_last_provider(selector, provider_list) ==
    IF selector # "none"
    THEN IF selector \notin KnownTypes
         THEN [error |-> [type |-> "ValueError", msg |-> "Invalid agent_type"],
               agents |-> <<>>]
         ELSE IF provider_list = <<>>
         THEN [error |-> [type |-> "IndexError", msg |-> "list index out of range"],
               agents |-> <<>>]
         ELSE [error |-> NoError,
               agents |-> <<new_agent(selector, provider_list[Len(provider_list)])>>]
    ELSE IF provider_list = <<>>
         THEN [error |-> [type |-> "ZeroDivisionError",
                          msg |-> "integer division or modulo by zero"],
               agents |-> <<>>]
         ELSE [error |-> NoError,
               agents |-> [i \in 1..Len(AgentTypes) |->
                             new_agent(AgentTypes[i],
                                       provider_list[round_robin(i - 1, Len(provider_list)) + 1])]]

build_agents(selector, provider_list) ==
    IF selector # "none"
    THEN IF selector \notin KnownTypes
         THEN [error |-> [type |-> "ValueError", msg |-> "Invalid agent_type"],
               agents |-> <<>>]
         ELSE IF provider_list = <<>>
         THEN [error |-> [type |-> "IndexError", msg |-> "list index out of range"],
               agents |-> <<>>]
         ELSE [error |-> NoError,
               agents |-> <<new_agent(selector, provider_list[1])>>]
    ELSE IF provider_list = <<>>
         THEN [error |-> [type |-> "ZeroDivisionError",
                          msg |-> "integer division or modulo by zero"],
               agents |-> <<>>]
         ELSE [error |-> NoError,
               agents |-> [i \in 1..Len(AgentTypes) |->
                             new_agent(AgentTypes[i],
                                       provider_list[round_robin(i - 1, Len(provider_list)) + 1])]]

BuildAgents ==
    /\ phase = "providers_resolved"
    /\ LET r == build_agents(agent_type, provider_configs)
       IN  /\ agents' = r.agents
           /\ error' = r.error
           /\ phase' = IF r.error = NoError THEN "agents_built" ELSE "failed"
    /\ UNCHANGED <<services, other_call, request, provider_configs, tasks, results, returned, cache, clock>>

agent_names == {agents[i].name : i \in 1..Len(agents)}

provider_of(name) == agents[CHOOSE i \in 1..Len(agents) : agents[i].name = name].provider

----------------------------------------------------------------------------
(* analyze_market, lines 106-113: one task per agent *)

\* The state of one agent task.  pc: "created" (scheduled, not yet run),
\* "awaiting_get" / "awaiting_provider" / "awaiting_set" (suspended at that
\* await), "done" (analyze returned res), "raised" (analyze raised res).
\* lookups, calls and sets count the redis gets, the backend calls and the
\* redis sets the task has made; hits the gets that found a value, answered
\* the backend calls that returned a response, faults the redis calls that
\* failed, fallbacks the calls made to a fallback provider; raised is the
\* exception the provider call ended with ("" when it answered).
new_task ==
    [pc |-> "created", res |-> NoResult, redis_client |-> FALSE,
     cache_key |-> <<>>, analysis |-> NoResult,
     lookups |-> 0, hits |-> 0, calls |-> 0, answered |-> 0, sets |-> 0,
     faults |-> 0, fallbacks |-> 0, raised |-> ""]

create_tasks(agent_seq) == [n \in {agent_seq[i].name : i \in 1..Len(agent_seq)} |-> new_task]

LaunchTasks ==
    /\ phase = "agents_built"
    /\ tasks' = create_tasks(agents)
    /\ phase' = "running"
    /\ UNCHANGED <<services, other_call, request, provider_configs, agents, results, returned, error,
                   cache, clock>>

finished(t) == t.pc \in {"done", "raised"}

return_value(t, r) == [t EXCEPT !.pc = "done", !.res = r]

----------------------------------------------------------------------------
(* SentimentAgent, TechnicalAgent, RiskManagementAgent, PortfolioAgent *)

\* (variant) the prompt is built and the provider called whatever the inputs
start_agent_unchecked(name, t, snapshot, history) == [t EXCEPT !.pc = "awaiting_provider"]

\* analyze from its first line to the await of create_message.  Sentiment,
\* risk and portfolio index the first entry of market_data['data']; technical
\* reads price_data only.  Every exception is caught by the except clause.
start_agent(name, t, snapshot, history) ==
    IF name = "technical_agent"
    THEN IF history = "empty" THEN return_value(t, Err("ValueError"))
         ELSE [t EXCEPT !.pc = "awaiting_provider"]
    ELSE IF snapshot = "empty" THEN return_value(t, Err("IndexError"))
         ELSE [t EXCEPT !.pc = "awaiting_provider"]

\* from the return of create_message to the return of analyze
agent_after_provider(t, r) ==
    LET u == [t EXCEPT !.calls = @ + r.backend_calls, !.answered = @ + r.answers,
                       !.fallbacks = @ + r.fallback_calls, !.raised = r.raised]
    IN  IF r.raised # "" THEN return_value(u, Err(r.raised))
        ELSE return_value(u, Ok(r.content))

----------------------------------------------------------------------------
(* MarketDataAgent *)

\* analyze from its first line to the await of redis_client.get.
\* _init_redis is awaited before the try: its exception leaves analyze.
start_market(t, init_ok, snapshot, hour) ==
    IF ~init_ok THEN [t EXCEPT !.pc = "raised", !.res = Exc("RedisError")]
    ELSE IF snapshot = "empty"
         THEN return_value([t EXCEPT !.redis_client = TRUE], Err("StopIteration"))
         ELSE [t EXCEPT !.redis_client = TRUE, !.cache_key = CacheKey(hour),
                        !.pc = "awaiting_get"]

\* (variant) a value found in the cache does not end analyze: the provider is
\* called all the same
market_after_get_always_calls(t, fault, store) ==
    LET u == [t EXCEPT !.lookups = @ + 1]
    IN  IF fault THEN return_value([u EXCEPT !.faults = @ + 1], Err("RedisError"))
        ELSE IF t.cache_key \in DOMAIN store
             THEN [u EXCEPT !.hits = @ + 1, !.pc = "awaiting_provider"]
             ELSE [u EXCEPT !.pc = "awaiting_provider"]

\* (variant) the cached text goes through the reasoning filter before it is
\* returned
market_after_get_refiltering(t, fault, store) ==
    LET u == [t EXCEPT !.lookups = @ + 1]
    IN  IF fault THEN return_value([u EXCEPT !.faults = @ + 1], Err("RedisError"))
        ELSE IF t.cache_key \in DOMAIN store
             THEN return_value([u EXCEPT !.hits = @ + 1],
                               Ok(FilterReasoning(json_loads(store[t.cache_key]).text)))
             ELSE [u EXCEPT !.pc = "awaiting_provider"]

\* from the return of redis_client.get to the await of create_message
market_after_get(t, fault, store) ==
    LET u == [t EXCEPT !.lookups = @ + 1]
    IN  IF fault THEN return_value([u EXCEPT !.faults = @ + 1], Err("RedisError"))
        ELSE IF t.cache_key \in DOMAIN store
             THEN return_value([u EXCEPT !.hits = @ + 1], json_loads(store[t.cache_key]))
             ELSE [u EXCEPT !.pc = "awaiting_provider"]

\* (variant) the except clause keeps the error string as the analysis and
\* goes on to the redis set
market_after_provider_caching_errors(t, r, reasoning) ==
    LET u == [t EXCEPT !.calls = @ + r.backend_calls, !.answered = @ + r.answers,
                       !.fallbacks = @ + r.fallback_calls, !.raised = r.raised]
    IN  [u EXCEPT !.pc = "awaiting_set",
                  !.analysis = IF r.raised # "" THEN Err(r.raised)
                               ELSE Ok(IF reasoning THEN r.content
                                       ELSE FilterReasoning(r.content))]

\* from the return of create_message to the await of redis_client.set
market_after_provider(t, r, reasoning) ==
    LET u == [t EXCEPT !.calls = @ + r.backend_calls, !.answered = @ + r.answers,
                       !.fallbacks = @ + r.fallback_calls, !.raised = r.raised]
    IN  IF r.raised # "" THEN return_value(u, Err(r.raised))
        ELSE [u EXCEPT !.pc = "awaiting_set",
                       !.analysis = Ok(IF reasoning THEN r.content
                                       ELSE FilterReasoning(r.content))]

\* from the return of redis_client.set to the return of analyze
market_after_set(t, fault) ==
    LET u == [t EXCEPT !.sets = @ + 1]
    IN  IF fault THEN return_value([u EXCEPT !.faults = @ + 1], Err("RedisError"))
        ELSE return_value(u, t.analysis)

\* the store after SET key value EX 3600
redis_set(store, key, value) ==
    [k \in DOMAIN store \cup {key} |-> IF k = key THEN value ELSE store[k]]

----------------------------------------------------------------------------
(* The steps of the tasks *)

others == <<request, phase, provider_configs, agents, results, returned, error, clock,
            other_call, services>>

StartMarket ==
    /\ phase = "running"
    /\ "market_data_agent" \in DOMAIN tasks
    /\ tasks["market_data_agent"].pc = "created"
    /\ \E init_ok \in BOOLEAN :
          tasks' = [tasks EXCEPT !["market_data_agent"] =
                       start_market(@, init_ok, market_data, clock)]
    /\ UNCHANGED <<others, cache>>

StartAgent(name) ==
    /\ phase = "running"
    /\ name \in DOMAIN tasks
    /\ name # "market_data_agent"
    /\ tasks[name].pc = "created"
    /\ tasks' = [tasks EXCEPT ![name] = start_agent(name, @, market_data, price_data)]
    /\ UNCHANGED <<others, cache>>

GetReturns ==
    /\ phase = "running"
    /\ "market_data_agent" \in DOMAIN tasks
    /\ tasks["market_data_agent"].pc = "awaiting_get"
    /\ \E fault \in BOOLEAN :
          tasks' = [tasks EXCEPT !["market_data_agent"] = market_after_get(@, fault, cache)]
    /\ UNCHANGED <<others, cache>>

ProviderReturns(name) ==
    /\ phase = "running"
    /\ name \in DOMAIN tasks
    /\ tasks[name].pc = "awaiting_provider"
    /\ \E outcome \in BackendOutcomes :
          LET r == create_message(provider_of(name), outcome)
          IN  tasks' = [tasks EXCEPT ![name] =
                           IF name = "market_data_agent"
                           THEN market_after_provider(@, r, show_reasoning)
                           ELSE agent_after_provider(@, r)]
    /\ UNCHANGED <<others, cache>>

\* The set succeeds (the value is stored), or fails: then redis may or may
\* not have stored the value before the failure reached the client.
SetReturns ==
    /\ phase = "running"
    /\ "market_data_agent" \in DOMAIN tasks
    /\ tasks["market_data_agent"].pc = "awaiting_set"
    /\ \E fault \in BOOLEAN, stored \in BOOLEAN :
          /\ ~fault => stored
          /\ tasks' = [tasks EXCEPT !["market_data_agent"] = market_after_set(@, fault)]
          /\ cache' = IF stored
                      THEN redis_set(cache, tasks["market_data_agent"].cache_key,
                                     json_dumps(tasks["market_data_agent"].analysis))
                      ELSE cache
    /\ UNCHANGED others

----------------------------------------------------------------------------
(* The branch of analyze taken when self.provider is None *)

\* No constructor leaves an agent without a provider (BaseAgent.__init__
\* always builds one): the branch runs only for an agent whose provider
\* attribute is None.
NoProvider == "None"

abs(x) == IF x < 0 THEN -x ELSE x

\* (variant) the threshold belongs to the higher level
risk_level_inclusive(volatility) ==
    IF volatility >= 10 THEN "HIGH" ELSE IF volatility >= 5 THEN "MEDIUM" ELSE "LOW"

\* "HIGH" if volatility > 10 else "MEDIUM" if volatility > 5 else "LOW"
risk_level(volatility) ==
    IF volatility > 10 THEN "HIGH" ELSE IF volatility > 5 THEN "MEDIUM" ELSE "LOW"

\* "TAKE PROFIT" if trend > 5 else "BUY DIP" if trend < -5 else "HOLD"
portfolio_action(trend) ==
    IF trend > 5 THEN "TAKE PROFIT" ELSE IF trend < -5 THEN "BUY DIP" ELSE "HOLD"

\* ("bullish" if quote['percent_change_24h'] > 0 else "bearish").upper()
market_sentiment(change) == IF change > 0 THEN "BULLISH" ELSE "BEARISH"

\* the first two lines of the analysis of the else branch
local_analysis(name, change) ==
    CASE name = "sentiment_agent" ->
            <<<<"Market Sentiment:", market_sentiment(change)>>, <<"24h Trend:", change>>>>
      [] name = "risk_management_agent" ->
            <<<<"Risk Level:", risk_level(abs(change))>>, <<"Volatility:", abs(change)>>>>
      [] name = "portfolio_agent" ->
            <<<<"Recommended Action:", portfolio_action(change)>>, <<"Price Trend:", change>>>>

LocalAgents == {"sentiment_agent", "risk_management_agent", "portfolio_agent"}

\* analyze of an agent without provider, from its first line to its return
LocalAnalyze(name) ==
    /\ phase = "running"
    /\ name \in DOMAIN tasks \cap LocalAgents
    /\ tasks[name].pc = "created"
    /\ provider_of(name) = NoProvider
    /\ tasks' = [tasks EXCEPT ![name] =
                    IF market_data = "empty" THEN return_value(@, Err("IndexError"))
                    ELSE return_value(@, Ok(local_analysis(name, percent_change_24h)))]
    /\ UNCHANGED <<others, cache>>

----------------------------------------------------------------------------
(* analyze_market, lines 114-115: gather and the returned dict *)

\* (variant) asyncio.gather(..., return_exceptions=False)
return_exceptions_off == FALSE

return_exceptions == TRUE

\* (variant) the wait ends with the first task that finishes
gather_first_completed(ts) == \E n \in DOMAIN ts : finished(ts[n])

\* (variant) the wait gives up the tasks whose call does not answer
gather_with_deadline(ts) == \A n \in DOMAIN ts : finished(ts[n]) \/ ts[n].pc = "hung"

\* gather's future is done
gather_ready(ts) ==
    IF return_exceptions THEN \A n \in DOMAIN ts : finished(ts[n])
    ELSE \/ \A n \in DOMAIN ts : finished(ts[n])
         \/ \E n \in DOMAIN ts : ts[n].pc = "raised"

task_keys == [i \in 1..Len(agents) |-> agents[i].name]

Gather ==
    /\ phase = "running"
    /\ gather_ready(tasks)
    /\ IF ~return_exceptions /\ \E n \in DOMAIN tasks : tasks[n].pc = "raised"
       THEN /\ phase' = "failed"
            /\ error' = [type |-> "RedisError", msg |-> "raised by a task"]
            /\ UNCHANGED results
       ELSE /\ phase' = "collected"
            /\ results' = [i \in 1..Len(task_keys) |-> tasks[task_keys[i]].res]
            /\ UNCHANGED error
    /\ UNCHANGED <<services, other_call, request, provider_configs, agents, tasks, returned, cache, clock>>

\* (variant) only the successful results are kept
zip_results_ok_only(keys, rs) ==
    [n \in {keys[i] : i \in {j \in 1..Len(keys) : rs[j].tag = "Ok"}} |->
        rs[CHOOSE i \in 1..Len(keys) : keys[i] = n]]

\* dict(zip(tasks.keys(), results))
zip_results(keys, rs) ==
    [n \in {keys[i] : i \in 1..Len(keys)} |->
        rs[CHOOSE i \in 1..Len(keys) : keys[i] = n]]

Return ==
    /\ phase = "collected"
    /\ returned' = zip_results(task_keys, results)
    /\ phase' = "done"
    /\ UNCHANGED <<services, other_call, request, provider_configs, agents, tasks, results, error, cache, clock>>

----------------------------------------------------------------------------
(* A second MarketDataAgent.analyze call on the same redis store *)

\* The call belongs to another request served by the same event loop (the
\* API handler runs one analyze_market per request): it has its own
\* show_reasoning argument and its own provider, and shares only redis.
NoCall == [task |-> [new_task EXCEPT !.pc = "absent"], show_reasoning |-> FALSE,
           provider |-> "", failure |-> ""]

rest == <<request, phase, provider_configs, agents, tasks, results, returned, error,
          clock, services>>

\* its snapshot is the one of the first call: same symbol, price and change
OtherStart ==
    /\ other_call.task.pc = "created"
    /\ \E init_ok \in BOOLEAN :
          other_call' = [other_call EXCEPT !.task = start_market(@, init_ok, "ok", clock)]
    /\ UNCHANGED <<rest, cache>>

OtherGetReturns ==
    /\ other_call.task.pc = "awaiting_get"
    /\ \E fault \in BOOLEAN :
          other_call' = [other_call EXCEPT !.task = market_after_get(@, fault, cache)]
    /\ UNCHANGED <<rest, cache>>

OtherProviderReturns ==
    /\ other_call.task.pc = "awaiting_provider"
    /\ \E outcome \in BackendOutcomes :
          other_call' = [other_call EXCEPT
                            !.failure = IF outcome = "ok" THEN "" ELSE outcome,
                            !.task = market_after_provider(@,
                                        create_message(other_call.provider, outcome),
                                        other_call.show_reasoning)]
    /\ UNCHANGED <<rest, cache>>

OtherSetReturns ==
    /\ other_call.task.pc = "awaiting_set"
    /\ \E fault \in BOOLEAN, stored \in BOOLEAN :
          /\ ~fault => stored
          /\ other_call' = [other_call EXCEPT !.task = market_after_set(@, fault)]
          /\ cache' = IF stored
                      THEN redis_set(cache, other_call.task.cache_key,
                                     json_dumps(other_call.task.analysis))
                      ELSE cache
    /\ UNCHANGED rest

----------------------------------------------------------------------------
(* The HTTP handler, the CMC client and the market-data provider *)

\* agent_functions, in the order of the dict: the agent's name and agent_type
agent_functions == [i \in 1..Len(AgentTypes) |-> agent_mapping(AgentTypes[i])]

Titles == <<"Market Data Agent", "Sentiment Agent", "Technical Agent", "Risk Agent",
            "Portfolio Agent">>

\* What awaiting analyze_market(agent_type=t) gives: the dict with the one
\* agent's text ("Ok"), error string ("Err") or exception object ("Exc"), or
\* the exception that analyze_market raises ("raise").
CallOutcomes == {"Ok", "Err", "Exc", "raise"}

Pending == [state |-> "pending", result |-> EmptyMap]

analyze_market_single(t, outcome) ==
    IF outcome = "raise" THEN [state |-> "raised", result |-> EmptyMap]
    ELSE [state |-> "returned",
          result |-> [n \in {agent_mapping(t)} |-> [by |-> n, tag |-> outcome]]]

\* (variant) the entries below the first take the content of the agent before
format_results_shifted(analysis_results) ==
    [i \in 1..Len(Titles) |->
        [title |-> Titles[i],
         content |-> analysis_results[agent_functions[IF i = 1 THEN 1 ELSE i - 1]]]]

\* lines 213-222: the list `agents` of the response
format_results(analysis_results) ==
    [i \in 1..Len(Titles) |->
        [title |-> Titles[i], content |-> analysis_results[agent_functions[i]]]]

NoHandler == [pc |-> "absent", provider |-> "", status |-> 0, agent_tasks |-> EmptyMap,
              next |-> 0, analysis_results |-> EmptyMap, response |-> <<>>]

http_error(h, code) == [h EXCEPT !.pc = "failed", !.status = code]

\* get_crypto_analysis up to its first await: the provider is validated and
\* the two fetches are started
HandlerStart ==
    /\ handler.pc = "start"
    /\ handler' = IF handler.provider \notin {"openai", "anthropic"}
                  THEN http_error(handler, 400)
                  ELSE [handler EXCEPT !.pc = "fetching"]
    /\ UNCHANGED <<request, phase, provider_configs, agents, tasks, results, returned,
                   error, cache, clock, other_call, backend_answer, cmc, market_provider>>

\* the gather of the two fetches returns or raises; on return the five
\* tasks are created and the first is awaited
HandlerFetched ==
    /\ handler.pc = "fetching"
    /\ \E fetched \in BOOLEAN :
          handler' = IF ~fetched THEN http_error(handler, 500)
                     ELSE [handler EXCEPT
                              !.pc = "awaiting",
                              !.agent_tasks = [n \in AgentNames |-> Pending],
                              !.next = 1]
    /\ UNCHANGED <<request, phase, provider_configs, agents, tasks, results, returned,
                   error, cache, clock, other_call, backend_answer, cmc, market_provider>>

\* one of the five analyze_market tasks finishes
HandlerTaskFinishes(i) ==
    /\ handler.agent_tasks # EmptyMap
    /\ handler.agent_tasks[agent_functions[i]].state = "pending"
    /\ \E outcome \in CallOutcomes :
          handler' = [handler EXCEPT !.agent_tasks[agent_functions[i]] =
                         analyze_market_single(AgentTypes[i], outcome)]
    /\ UNCHANGED <<request, phase, provider_configs, agents, tasks, results, returned,
                   error, cache, clock, other_call, backend_answer, cmc, market_provider>>

\* `result = await task` of the loop at lines 195-208 resumes; after the last
\* task the response is built and returned
HandlerAwaitReturns ==
    /\ handler.pc = "awaiting"
    /\ LET agent_name == agent_functions[handler.next]
           task == handler.agent_tasks[agent_name]
       IN  /\ task.state # "pending"
           /\ handler' =
                 IF task.state = "raised" \/ agent_name \notin DOMAIN task.result
                 THEN http_error(handler, 500)
                 ELSE LET analysis_results ==
                             [n \in DOMAIN handler.analysis_results \cup {agent_name} |->
                                 IF n = agent_name THEN task.result[agent_name]
                                 ELSE handler.analysis_results[n]]
                      IN  IF handler.next < Len(agent_functions)
                          THEN [handler EXCEPT !.analysis_results = analysis_results,
                                               !.next = @ + 1]
                          ELSE [handler EXCEPT !.analysis_results = analysis_results,
                                               !.pc = "responded", !.status = 200,
                                               !.response = format_results(analysis_results)]
    /\ UNCHANGED <<request, phase, provider_configs, agents, tasks, results, returned,
                   error, cache, clock, other_call, backend_answer, cmc, market_provider>>

MaxSessions == 3       \* sessions one client creates
MaxRequests == 2       \* requests of one client in flight

\* self._session is 0 for None, else an index of `sessions`, the sessions
\* that exist, each "open" or "closed"; `in_flight` gives the session of each
\* request between its session.get and its response.
NoClient == [pc |-> "absent", session |-> 0, sessions |-> <<>>, in_flight |-> <<>>,
             failed |-> 0, last |-> [op |-> "", session |-> 0]]

\* `self._session is None or self._session.closed`
no_open_session(c) == c.session = 0 \/ c.sessions[c.session] = "closed"

\* (variant) a session is created at every call
get_session_always_new(c) ==
    [c EXCEPT !.sessions = Append(@, "open"), !.session = Len(c.sessions) + 1]

\* CMCClient._get_session (no await inside: one step)
get_session(c) ==
    IF no_open_session(c)
    THEN [c EXCEPT !.sessions = Append(@, "open"), !.session = Len(c.sessions) + 1]
    ELSE c

\* CMCClient.close; ClientSession.close marks the session closed before it
\* first suspends
close(c) ==
    IF c.session # 0 /\ c.sessions[c.session] # "closed"
    THEN [c EXCEPT !.sessions[c.session] = "closed"]
    ELSE c

\* a call of _get_session alone (lifespan, __aenter__)
CmcGetSession ==
    /\ cmc.pc = "live"
    /\ no_open_session(cmc) => Len(cmc.sessions) < MaxSessions
    /\ LET c == get_session(cmc)
       IN  cmc' = [c EXCEPT !.last = [op |-> "get_session", session |-> c.session]]
    /\ UNCHANGED <<request, phase, provider_configs, agents, tasks, results, returned,
                   error, cache, clock, other_call, backend_answer, handler, market_provider>>

\* get_market_data, get_historical_prices or get_available_cryptocurrencies
\* up to the suspension in session.get
CmcRequestStarts ==
    /\ cmc.pc = "live"
    /\ no_open_session(cmc) => Len(cmc.sessions) < MaxSessions
    /\ Len(cmc.in_flight) < MaxRequests
    /\ LET c == get_session(cmc)
       IN  cmc' = [c EXCEPT !.in_flight = Append(@, c.session),
                            !.last = [op |-> "request", session |-> c.session]]
    /\ UNCHANGED <<request, phase, provider_configs, agents, tasks, results, returned,
                   error, cache, clock, other_call, backend_answer, handler, market_provider>>

\* the response of a request arrives, or the request fails; it fails when its
\* session was closed meanwhile
CmcRequestEnds(i) ==
    /\ cmc.pc = "live"
    /\ i \in 1..Len(cmc.in_flight)
    /\ \E ok \in BOOLEAN :
          /\ cmc.sessions[cmc.in_flight[i]] = "closed" => ~ok
          /\ cmc' = [cmc EXCEPT
                        !.in_flight = SubSeq(@, 1, i - 1) \o SubSeq(@, i + 1, Len(@)),
                        !.failed = IF ok THEN 0 ELSE 1,
                        !.last = [op |-> "response", session |-> cmc.in_flight[i]]]
    /\ UNCHANGED <<request, phase, provider_configs, agents, tasks, results, returned,
                   error, cache, clock, other_call, backend_answer, handler, market_provider>>

\* a call of close (lifespan shutdown, __aexit__)
CmcClose ==
    /\ cmc.pc = "live"
    /\ cmc' = [close(cmc) EXCEPT !.last = [op |-> "close", session |-> cmc.session]]
    /\ UNCHANGED <<request, phase, provider_configs, agents, tasks, results, returned,
                   error, cache, clock, other_call, backend_answer, handler, market_provider>>

MaxCalls == 3          \* calls of get_market_data on one provider instance

Symbols == {"BTC", "ETH"}

\* `memo` is the lru_cache of get_market_data: it maps the arguments to what
\* the decorated function returned, which for an async def is the coroutine
\* object (an index of `coroutines`), not its result.  `calls` holds, for
\* each `await provider.get_market_data(symbol)`, its coroutine and outcome.
NoMarketProvider == [pc |-> "absent", memo |-> EmptyMap, coroutines |-> <<>>,
                     calls |-> <<>>, lock |-> 0, in_flight |-> 0, historical |-> 0]

\* the lru_cache wrapper: the stored coroutine object on a hit, a new one on
\* a miss (maxsize=100 is never reached with the symbols of the model)
lru_cache_call(p, symbol) ==
    IF symbol \in DOMAIN p.memo THEN p
    ELSE [p EXCEPT !.coroutines = Append(@, "created"),
                   !.memo = [s \in DOMAIN p.memo \cup {symbol} |->
                                IF s = symbol THEN Len(p.coroutines) + 1 ELSE p.memo[s]]]

\* `async with self._cache_lock` followed by the client's request, up to the
\* first suspension
enter_lock(p, k) ==
    IF p.lock = 0
    THEN [p EXCEPT !.lock = k, !.coroutines[k] = "fetching", !.in_flight = @ + 1]
    ELSE [p EXCEPT !.coroutines[k] = "waiting_lock"]

\* `await provider.get_market_data(symbol)`: the call through lru_cache, then
\* the await of what it returned; a coroutine that was already started
\* cannot be awaited again (RuntimeError)
MpGetMarketData(symbol) ==
    /\ market_provider.pc = "live"
    /\ Len(market_provider.calls) < MaxCalls
    /\ LET p == lru_cache_call(market_provider, symbol)
           k == p.memo[symbol]
       IN  market_provider' =
              IF p.coroutines[k] = "created"
              THEN [enter_lock(p, k) EXCEPT
                       !.calls = Append(@, [symbol |-> symbol, coroutine |-> k,
                                            outcome |-> "pending"])]
              ELSE [p EXCEPT
                       !.calls = Append(@, [symbol |-> symbol, coroutine |-> k,
                                            outcome |-> "RuntimeError"])]
    /\ UNCHANGED <<request, phase, provider_configs, agents, tasks, results, returned,
                   error, cache, clock, other_call, backend_answer, handler, cmc>>

\* a coroutine that waited for the lock gets it and sends its request
MpLockAcquired(k) ==
    /\ market_provider.pc = "live"
    /\ k \in 1..Len(market_provider.coroutines)
    /\ market_provider.coroutines[k] = "waiting_lock"
    /\ market_provider.lock = 0
    /\ market_provider' = enter_lock(market_provider, k)
    /\ UNCHANGED <<request, phase, provider_configs, agents, tasks, results, returned,
                   error, cache, clock, other_call, backend_answer, handler, cmc>>

\* the client's request of a coroutine ends: a valid response is returned,
\* anything else is raised; the lock is released
MpResponse(k) ==
    /\ market_provider.pc = "live"
    /\ k \in 1..Len(market_provider.coroutines)
    /\ market_provider.coroutines[k] = "fetching"
    /\ \E valid \in BOOLEAN :
          market_provider' =
             [market_provider EXCEPT
                 !.lock = 0,
                 !.in_flight = @ - 1,
                 !.coroutines[k] = "finished",
                 !.calls = [i \in 1..Len(@) |->
                               IF @[i].coroutine = k /\ @[i].outcome = "pending"
                               THEN [@[i] EXCEPT !.outcome =
                                        IF valid THEN "valid" ELSE "raised"]
                               ELSE @[i]]]
    /\ UNCHANGED <<request, phase, provider_configs, agents, tasks, results, returned,
                   error, cache, clock, other_call, backend_answer, handler, cmc>>

\* get_historical_prices sends its request (it takes no lock)
MpHistoricalStarts ==
    /\ market_provider.pc = "live"
    /\ market_provider.historical = 0
    /\ market_provider' = [market_provider EXCEPT !.historical = 1, !.in_flight = @ + 1]
    /\ UNCHANGED <<request, phase, provider_configs, agents, tasks, results, returned,
                   error, cache, clock, other_call, backend_answer, handler, cmc>>

\* the request of get_historical_prices ends
MpHistoricalEnds ==
    /\ market_provider.pc = "live"
    /\ market_provider.historical = 1
    /\ market_provider' = [market_provider EXCEPT !.historical = 0, !.in_flight = @ - 1]
    /\ UNCHANGED <<request, phase, provider_configs, agents, tasks, results, returned,
                   error, cache, clock, other_call, backend_answer, handler, cmc>>

----------------------------------------------------------------------------
(* Specifications *)

\* the snapshot and the backend's answer of the requests that vary neither,
\* and no HTTP request, CMC client or market-data provider in use
Quiet ==
    /\ percent_change_24h = 12
    /\ backend_answer = DefaultResponse
    /\ handler = NoHandler
    /\ cmc = NoClient
    /\ market_provider = NoMarketProvider

Idle ==
    /\ phase = "start"
    /\ provider_configs = <<>>
    /\ agents = <<>>
    /\ tasks = EmptyMap
    /\ results = <<>>
    /\ returned = EmptyMap
    /\ error = NoError

\* provider lists that name each provider once
DistinctLists == {s \in SeqsUpTo(Providers, Cardinality(Providers)) :
                     s # <<>> /\ Cardinality(Range(s)) = Len(s)}

\* Requests that pass the checks of lines 43-104: the run of the tasks.
Init ==
    /\ provider_map \in DistinctLists
    /\ env_keys = Providers
    /\ agent_type \in {"none"} \cup KnownTypes
    /\ show_reasoning \in BOOLEAN
    /\ market_data \in {"ok", "empty"}
    /\ price_data \in {"ok", "empty"}
    /\ cache = EmptyMap
    /\ clock = 0
    /\ other_call = NoCall
    /\ Quiet
    /\ Idle

Next ==
    \/ ResolveProviders
    \/ BuildAgents
    \/ LaunchTasks
    \/ StartMarket
    \/ \E name \in AgentNames : StartAgent(name)
    \/ GetReturns
    \/ \E name \in AgentNames : ProviderReturns(name)
    \/ SetReturns
    \/ Gather
    \/ Return

Spec == Init /\ [][Next]_vars

----------------------------------------------------------------------------
(* The checks of lines 43-104 on every request, up to the launch of the tasks *)

InitPreflight ==
    /\ provider_map \in SeqsUpTo(Providers, MaxProviders)
    /\ env_keys \in SUBSET Providers
    /\ agent_type \in {"none", "bogus"} \cup KnownTypes
    /\ show_reasoning \in BOOLEAN
    /\ market_data = "ok"
    /\ price_data = "ok"
    /\ cache = EmptyMap
    /\ clock = 0
    /\ other_call = NoCall
    /\ Quiet
    /\ Idle

NextPreflight ==
    \/ ResolveProviders
    \/ BuildAgents
    \/ LaunchTasks

SpecPreflight == InitPreflight /\ [][NextPreflight]_vars

----------------------------------------------------------------------------
(* Requests one after the other against the same redis store *)

\* the next call of analyze_market, once the last one has returned or raised
NewRequest ==
    /\ phase \in {"done", "failed"}
    /\ provider_map' \in DistinctLists
    /\ agent_type' \in {"market", "sentiment"}
    /\ show_reasoning' \in BOOLEAN
    /\ market_data' \in {"ok", "empty"}
    /\ phase' = "start"
    /\ provider_configs' = <<>>
    /\ agents' = <<>>
    /\ tasks' = EmptyMap
    /\ results' = <<>>
    /\ returned' = EmptyMap
    /\ error' = NoError
    /\ UNCHANGED <<env_keys, price_data, percent_change_24h, cache, clock, other_call,
                   services>>

\* the hour changes
Tick ==
    /\ clock < MaxHour
    /\ clock' = clock + 1
    /\ UNCHANGED <<services, other_call, request, phase, provider_configs, agents, tasks, results,
                   returned, error, cache>>

\* redis drops a key an hour after it was set (ex=3600): not before the hour
\* after the one in the key
Expire ==
    /\ \E k \in DOMAIN cache :
          /\ k[4] < clock
          /\ cache' = [j \in DOMAIN cache \ {k} |-> cache[j]]
    /\ UNCHANGED <<services, other_call, request, phase, provider_configs, agents, tasks, results,
                   returned, error, clock>>

InitCache ==
    /\ provider_map \in DistinctLists
    /\ env_keys = Providers
    /\ agent_type \in {"market", "sentiment"}
    /\ show_reasoning \in BOOLEAN
    /\ market_data \in {"ok", "empty"}
    /\ price_data = "ok"
    /\ cache = EmptyMap
    /\ clock = 0
    /\ other_call = NoCall
    /\ Quiet
    /\ Idle

NextCache ==
    \/ Next
    \/ NewRequest
    \/ Tick
    \/ Expire

SpecCache == InitCache /\ [][NextCache]_vars

----------------------------------------------------------------------------
(* Requests whose provider calls may never answer *)

\* the backend never answers: the await of create_message never returns
ProviderHangs(name) ==
    /\ phase = "running"
    /\ name \in DOMAIN tasks
    /\ tasks[name].pc = "awaiting_provider"
    /\ tasks' = [tasks EXCEPT ![name].pc = "hung"]
    /\ UNCHANGED <<others, cache>>

some_call_hangs == \E n \in DOMAIN tasks : tasks[n].pc = "hung"

InitLive ==
    /\ provider_map \in {s \in DistinctLists : Len(s) = Cardinality(Providers)}
    /\ env_keys = Providers
    /\ agent_type \in {"none"} \cup KnownTypes
    /\ show_reasoning = TRUE
    /\ market_data = "ok"
    /\ price_data = "ok"
    /\ cache = EmptyMap
    /\ clock = 0
    /\ other_call = NoCall
    /\ Quiet
    /\ Idle

NextLive ==
    \/ Next
    \/ \E name \in AgentNames : ProviderHangs(name)

\* The event loop runs every task that is ready and analyze_market itself
\* runs to its next await: a step that is possible is eventually taken.
SpecLive == InitLive /\ [][NextLive]_vars /\ WF_vars(NextLive)

----------------------------------------------------------------------------
(* Two analyses of the same snapshot in the same hour, run concurrently *)

InitRace ==
    /\ provider_map \in DistinctLists
    /\ env_keys = Providers
    /\ agent_type = "market"
    /\ show_reasoning \in BOOLEAN
    /\ market_data = "ok"
    /\ price_data = "ok"
    /\ cache = EmptyMap
    /\ clock = 0
    /\ other_call \in [task : {new_task}, show_reasoning : BOOLEAN, provider : Providers,
                     failure : {""}]
    /\ Quiet
    /\ Idle

NextRace ==
    \/ ResolveProviders
    \/ BuildAgents
    \/ LaunchTasks
    \/ StartMarket
    \/ GetReturns
    \/ ProviderReturns("market_data_agent")
    \/ SetReturns
    \/ Gather
    \/ Return
    \/ OtherStart
    \/ OtherGetReturns
    \/ OtherProviderReturns
    \/ OtherSetReturns

SpecRace == InitRace /\ [][NextRace]_vars

----------------------------------------------------------------------------
(* Requests whose backend answers with any text of a few lines *)

MaxLines == 3          \* most lines of a backend answer

\* a reasoning line, an indented reasoning line, a line without a marker, a
\* line with a marker in its middle, and another reasoning line
Lines ==
    {<<"Because", "volume rose">>,
     <<Blank, "Given that", "RSI is high">>,
     <<"Market is strong">>,
     <<"Price fell", "Because", "of news">>,
     <<"Considering", "the trend">>}

Responses == SeqsUpTo(Lines, MaxLines) \ {<<>>}

InitFilter ==
    /\ provider_map = <<"anthropic">>
    /\ env_keys = Providers
    /\ agent_type \in {"market", "sentiment"}
    /\ show_reasoning \in BOOLEAN
    /\ market_data = "ok"
    /\ price_data = "ok"
    /\ cache = EmptyMap
    /\ clock = 0
    /\ other_call = NoCall
    /\ percent_change_24h = 12
    /\ backend_answer \in Responses
    /\ handler = NoHandler
    /\ cmc = NoClient
    /\ market_provider = NoMarketProvider
    /\ Idle

SpecFilter == InitFilter /\ [][Next]_vars

----------------------------------------------------------------------------
(* Agents without provider on every 24h change of a range *)

MaxChange == 12        \* largest 24h change of a snapshot, in percent

InitFallback ==
    /\ provider_map = <<>>
    /\ env_keys = Providers
    /\ agent_type = "none"
    /\ show_reasoning = FALSE
    /\ market_data \in {"ok", "empty"}
    /\ price_data = "ok"
    /\ cache = EmptyMap
    /\ clock = 0
    /\ other_call = NoCall
    /\ percent_change_24h \in (0 - MaxChange)..MaxChange
    /\ backend_answer = DefaultResponse
    /\ handler = NoHandler
    /\ cmc = NoClient
    /\ market_provider = NoMarketProvider
    /\ phase = "agents_built"
    /\ provider_configs = <<>>
    /\ agents = <<[name |-> "sentiment_agent", provider |-> NoProvider],
                  [name |-> "risk_management_agent", provider |-> NoProvider],
                  [name |-> "portfolio_agent", provider |-> NoProvider]>>
    /\ tasks = EmptyMap
    /\ results = <<>>
    /\ returned = EmptyMap
    /\ error = NoError

NextFallback ==
    \/ LaunchTasks
    \/ \E name \in LocalAgents : LocalAnalyze(name)
    \/ Gather
    \/ Return

SpecFallback == InitFallback /\ [][NextFallback]_vars

----------------------------------------------------------------------------
(* One HTTP request for an analysis *)

InitHandler ==
    /\ provider_map = <<>>
    /\ env_keys = Providers
    /\ agent_type = "none"
    /\ show_reasoning = TRUE
    /\ market_data = "ok"
    /\ price_data = "ok"
    /\ cache = EmptyMap
    /\ clock = 0
    /\ other_call = NoCall
    /\ percent_change_24h = 12
    /\ backend_answer = DefaultResponse
    /\ handler \in {[NoHandler EXCEPT !.pc = "start", !.provider = p] :
                       p \in {"openai", "anthropic", "gemini"}}
    /\ cmc = NoClient
    /\ market_provider = NoMarketProvider
    /\ Idle

NextHandler ==
    \/ HandlerStart
    \/ HandlerFetched
    \/ \E i \in 1..Len(AgentTypes) : HandlerTaskFinishes(i)
    \/ HandlerAwaitReturns

SpecHandler == InitHandler /\ [][NextHandler]_vars

----------------------------------------------------------------------------
(* One CMC client under any sequence of calls *)

InitClient ==
    /\ provider_map = <<>>
    /\ env_keys = Providers
    /\ agent_type = "none"
    /\ show_reasoning = TRUE
    /\ market_data = "ok"
    /\ price_data = "ok"
    /\ cache = EmptyMap
    /\ clock = 0
    /\ other_call = NoCall
    /\ percent_change_24h = 12
    /\ backend_answer = DefaultResponse
    /\ handler = NoHandler
    /\ cmc = [NoClient EXCEPT !.pc = "live"]
    /\ market_provider = NoMarketProvider
    /\ Idle

NextClient ==
    \/ CmcGetSession
    \/ CmcRequestStarts
    \/ \E i \in 1..MaxRequests : CmcRequestEnds(i)
    \/ CmcClose

SpecClient == InitClient /\ [][NextClient]_vars

----------------------------------------------------------------------------
(* One market-data provider instance under repeated calls *)

InitProvider ==
    /\ provider_map = <<>>
    /\ env_keys = Providers
    /\ agent_type = "none"
    /\ show_reasoning = TRUE
    /\ market_data = "ok"
    /\ price_data = "ok"
    /\ cache = EmptyMap
    /\ clock = 0
    /\ other_call = NoCall
    /\ percent_change_24h = 12
    /\ backend_answer = DefaultResponse
    /\ handler = NoHandler
    /\ cmc = NoClient
    /\ market_provider = [NoMarketProvider EXCEPT !.pc = "live"]
    /\ Idle

NextProvider ==
    \/ \E symbol \in Symbols : MpGetMarketData(symbol)
    \/ \E k \in 1..MaxCalls : MpLockAcquired(k)
    \/ \E k \in 1..MaxCalls : MpResponse(k)
    \/ MpHistoricalStarts
    \/ MpHistoricalEnds

SpecProvider == InitProvider /\ [][NextProvider]_vars

----------------------------------------------------------------------------
(* Properties *)

launched == tasks # EmptyMap

\* the agent set the request asks for
requested_agents ==
    IF agent_type = "none" THEN AgentNames ELSE {agent_mapping(agent_type)}

\* the text analyze returns when its own backend call answered
own_text(name) ==
    IF name = "market_data_agent" /\ ~show_reasoning THEN FilterReasoning(RawResponse)
    ELSE RawResponse

\* the task's provider call failed, whatever the kind (a quota error included;
\* no fallback call is made), or the task raised
failed_agent(name) ==
    \/ (tasks[name].calls > 0 /\ tasks[name].answered = 0)
    \/ tasks[name].pc = "raised"

\* In a returned mapping, for every pair of distinct agents A and B where A's
\* provider call failed or A raised, B's entry is the outcome of B's own task.
own_outcome_returned ==
    phase = "done" =>
       \A a \in agent_names, b \in agent_names :
          (a # b /\ failed_agent(a)) =>
             (b \in DOMAIN returned /\ returned[b] = tasks[b].res)

\* C1. Fault isolation: once the tasks are launched the request does not fail
\* as a whole, and for every pair of distinct agents A and B, whatever failure
\* A's provider call raised, B's entry is the outcome of B's own task; in
\* particular B's entry is B's success text whenever B's own provider call
\* answered.
C1_FaultIsolation ==
    /\ (phase = "failed" => ~launched)
    /\ own_outcome_returned
    /\ (phase = "done" =>
          \A a \in agent_names, b \in agent_names :
             (a # b /\ failed_agent(a) /\ tasks[b].answered = 1)
                => returned[b] = Ok(own_text(b)))

\* C2. The returned mapping has exactly the keys of the resolved agent set:
\* one entry per requested agent, whichever agents failed.
C2_KeySetIsAgentSet ==
    phase = "done" =>
       /\ DOMAIN returned = agent_names
       /\ agent_names = requested_agents
       /\ Cardinality(DOMAIN returned) = Len(agents)

C2_Witness ==
    /\ phase = "done"
    /\ agent_type = "none"
    /\ Cardinality(DOMAIN returned) = 5
    /\ Cardinality({n \in DOMAIN returned : returned[n].tag # "Ok"}) >= 3
    /\ \E n \in DOMAIN returned : returned[n].tag = "Ok"

\* the providers of a list in the order of their first occurrence
RECURSIVE first_occurrences(_, _)
first_occurrences(P, j) ==
    IF j > Len(P) THEN <<>>
    ELSE (IF \E k \in 1..(j - 1) : P[k] = P[j] THEN <<>> ELSE <<P[j]>>)
         \o first_occurrences(P, j + 1)

all_agents_built == phase \in {"agents_built", "running"} /\ agent_type = "none"

\* C3 as stated: without a selector the agent at position i of the canonical
\* order is constructed with provider P[i mod M] of the requested list P.
C3_RoundRobinOverRequestedList ==
    all_agents_built =>
       \A i \in 0..4 :
          /\ agents[i + 1].name = agent_mapping(AgentTypes[i + 1])
          /\ agents[i + 1].provider = provider_map[(i % Len(provider_map)) + 1]

\* C3, amended: the agent at position i of the canonical order is constructed
\* with provider D[i mod |D|], where D is the requested list without the
\* repetitions (each provider at its first occurrence); for a list that names
\* no provider twice this is P[i mod M].
C3_RoundRobinOverDistinctProviders ==
    all_agents_built =>
       LET D == first_occurrences(provider_map, 1)
       IN  /\ Len(agents) = 5
           /\ \A i \in 0..4 :
                 /\ agents[i + 1].name = agent_mapping(AgentTypes[i + 1])
                 /\ agents[i + 1].provider = D[(i % Len(D)) + 1]
           /\ (Len(D) = Len(provider_map) =>
                 \A i \in 0..4 :
                    agents[i + 1].provider = provider_map[(i % Len(provider_map)) + 1])

C3_Witness ==
    /\ all_agents_built
    /\ provider_map = <<"openai", "openai", "anthropic">>
    /\ agents[2].provider = "anthropic"
    /\ agents[3].provider = "openai"

\* C4. Every exception of analyze is caught inside analyze: no task raises,
\* and every entry of the returned mapping is a text or an error string,
\* never an exception object.
C4_AgentBoundary ==
    /\ \A n \in DOMAIN tasks : tasks[n].pc # "raised"
    /\ (phase = "done" => \A n \in DOMAIN returned : returned[n].tag \in {"Ok", "Err"})

\* C5. analyze_market leaves the gather only when every launched task has
\* finished, and the outcome of every task, success or error, is in what it
\* collected and returned.
C5_FanInWaitsForAll ==
    (launched /\ phase # "running") =>
       /\ \A n \in DOMAIN tasks : finished(tasks[n])
       /\ phase \in {"collected", "done"}
       /\ Len(results) = Len(agents)
       /\ \A i \in 1..Len(agents) : results[i] = tasks[agents[i].name].res
       /\ (phase = "done" => \A n \in DOMAIN tasks : returned[n] = tasks[n].res)

C5_Witness ==
    /\ phase = "collected"
    /\ agent_type = "none"
    /\ results[2].tag = "Err"
    /\ results[1].tag = "Ok"
    /\ \A i \in 3..5 : results[i].tag = "Ok"

bad_request ==
    \/ agent_type \notin {"none"} \cup KnownTypes
    \/ \E i \in 1..Len(provider_map) : provider_map[i] \notin env_keys
    \/ provider_map = <<>>

\* C6. A request with an unknown agent type, a missing credential or an empty
\* provider list fails with a configuration error (the ValueError of the
\* checks) before any task is launched.
C6_ConfigurationErrors ==
    /\ (phase = "failed" => error.type = "ValueError" /\ ~launched)
    /\ (bad_request => phase \in {"start", "providers_resolved", "failed"})

\* C7. Failures are never cached: every stored value is the text of a run
\* whose provider call answered, a task writes the cache only after its own
\* provider call answered, and a cache hit returns a text, not an error.
C7_FailuresNeverCached ==
    /\ \A k \in DOMAIN cache :
          /\ json_loads(cache[k]).tag = "Ok"
          /\ json_loads(cache[k]).text \in {RawResponse, FilterReasoning(RawResponse)}
    /\ \A n \in DOMAIN tasks :
          /\ (tasks[n].pc = "awaiting_set" \/ tasks[n].sets > 0) => tasks[n].answered = 1
          /\ (tasks[n].hits > 0 /\ tasks[n].pc = "done") => tasks[n].res.tag = "Ok"

C7_Witness ==
    /\ clock = 1
    /\ CacheKey(0) \in DOMAIN cache
    /\ CacheKey(1) \notin DOMAIN cache
    /\ "market_data_agent" \in DOMAIN tasks
    /\ tasks["market_data_agent"].cache_key = CacheKey(1)
    /\ tasks["market_data_agent"].res = Err("ProviderQuotaError")

provider_called(t) == t.pc = "awaiting_provider" \/ t.calls > 0

C9_CacheFaultIsAMiss ==
    \A n \in DOMAIN tasks :
       (finished(tasks[n]) /\ tasks[n].faults > 0) =>
          /\ tasks[n].calls > 0
          /\ (tasks[n].answered > 0 => tasks[n].res = tasks[n].analysis)
          /\ tasks[n].res.kind # "RedisError"

\* C10. A provider call that fails with a Connection error is retried: the
\* agent's result is that error only after the retries are used up, and no
\* call is attempted more often than the bound allows.
C10_ConnectionRetried ==
    \A n \in DOMAIN tasks :
       /\ tasks[n].calls <= 1 + RetryBound
       /\ (finished(tasks[n]) /\ tasks[n].res = Err("ProviderConnectionError"))
             => tasks[n].calls >= RetryBound


\* C11. Quota fallback: a provider call that fails with a Quota error is
\* never repeated on the provider that reported it and is issued again to the
\* fallback provider; the agent's result is the quota error only if the
\* fallback call was made (and failed too).
C11_QuotaFallback ==
    \A n \in DOMAIN tasks :
       /\ tasks[n].raised = "ProviderQuotaError" => tasks[n].calls <= 1
       /\ (finished(tasks[n]) /\ tasks[n].res = Err("ProviderQuotaError"))
             => tasks[n].fallbacks > 0

\* the kinds of error that are neither retried nor sent to a fallback
TerminalKinds ==
    {"ProviderAuthenticationError", "ResponseValidationError", "ModelProviderError"}

\* C12. Terminal kinds: a provider call that failed with an Authentication,
\* ResponseValidation or Unknown (ModelProviderError) error has been made
\* exactly once, no fallback provider has been called, and the step in which
\* the call failed ended the task with that error as the agent's error result,
\* which is the agent's entry of the returned mapping.
C12_TerminalKinds ==
    \A n \in DOMAIN tasks :
       tasks[n].raised \in TerminalKinds =>
          /\ tasks[n].pc = "done"
          /\ tasks[n].res = Err(tasks[n].raised)
          /\ tasks[n].calls = 1
          /\ tasks[n].answered = 0
          /\ tasks[n].fallbacks = 0
          /\ (phase = "collected" => results[CHOOSE i \in 1..Len(agents) :
                                                agents[i].name = n] = Err(tasks[n].raised))
          /\ (phase = "done" => returned[n] = Err(tasks[n].raised))

C12_Witness ==
    /\ phase = "done"
    /\ agent_type = "none"
    /\ returned["market_data_agent"] = Err("ProviderAuthenticationError")
    /\ returned["sentiment_agent"] = Err("ModelProviderError")
    /\ returned["technical_agent"].tag = "Ok"
    /\ tasks["market_data_agent"].calls = 1
    /\ tasks["sentiment_agent"].calls = 1

PhaseOrder ==
    {<<"start", "providers_resolved">>, <<"providers_resolved", "agents_built">>,
     <<"agents_built", "running">>, <<"running", "collected">>,
     <<"collected", "done">>}

every_agent_has_one_provider ==
    /\ agents # <<>>
    /\ Cardinality(agent_names) = Len(agents)
    /\ \A i \in 1..Len(agents) : agents[i].provider \in Range(provider_configs)

\* C16. Phase order: every step that changes the phase moves it to the next
\* phase of the order, never further and never back; the step that launches
\* the first task starts from a state in which the agent set is fixed and
\* every agent of it has exactly one provider, and launches exactly these
\* agents; tasks run in the Running phase only; the gathered results and the
\* returned mapping are built only from a state in which every task has
\* finished.
C16_PhaseOrder ==
    [][/\ phase' # phase => <<phase, phase'>> \in PhaseOrder
       /\ (tasks = EmptyMap /\ tasks' # EmptyMap) =>
             /\ phase = "agents_built"
             /\ every_agent_has_one_provider
             /\ agents' = agents
             /\ DOMAIN tasks' = agent_names
       /\ (tasks # EmptyMap /\ tasks' # tasks) => (phase = "running" /\ phase' = "running")
       /\ (results' # results \/ returned' # returned) =>
             /\ phase \in {"running", "collected"}
             /\ \A n \in DOMAIN tasks : finished(tasks[n])
             /\ tasks' = tasks]_vars

C16_Witness ==
    /\ phase = "done"
    /\ agent_type = "none"
    /\ provider_map = <<"openai", "anthropic">>
    /\ every_agent_has_one_provider
    /\ DOMAIN returned = agent_names
    /\ \A n \in DOMAIN tasks : finished(tasks[n])
    /\ agents[1].provider = "openai"
    /\ agents[2].provider = "anthropic"

\* C17. Agent set resolution: with a single agent type the agent set is that
\* one agent, constructed with the first provider of the requested list, and
\* no other agent is constructed or launched; without a type the agent set
\* is the five agents in the order market, sentiment, technical, risk,
\* portfolio.
C17_AgentSetResolution ==
    phase \in {"agents_built", "running"} =>
       /\ agent_type \in KnownTypes =>
             /\ agents = <<[name |-> agent_mapping(agent_type),
                            provider |-> provider_map[1]]>>
             /\ (launched => DOMAIN tasks = {agent_mapping(agent_type)})
       /\ agent_type = "none" =>
             /\ [i \in 1..Len(agents) |-> agents[i].name] =
                   <<"market_data_agent", "sentiment_agent", "technical_agent",
                     "risk_management_agent", "portfolio_agent">>
             /\ (launched => DOMAIN tasks = AgentNames)
       /\ agent_type \in {"none"} \cup KnownTypes

C17_Witness ==
    /\ phase = "running"
    /\ agent_type = "technical"
    /\ provider_map = <<"openai", "anthropic", "openai">>
    /\ agents = <<[name |-> "technical_agent", provider |-> "openai"]>>
    /\ DOMAIN tasks = {"technical_agent"}


C20_KeyCoversInputs ==
    \A n \in DOMAIN tasks :
       (tasks[n].hits > 0 /\ tasks[n].pc = "done") => tasks[n].res = Ok(own_text(n))


\* both calls missed, called their provider and completed their set
both_stored ==
    /\ "market_data_agent" \in DOMAIN tasks
    /\ LET a == tasks["market_data_agent"]
           b == other_call.task
       IN  /\ a.pc = "done" /\ b.pc = "done"
           /\ a.cache_key = b.cache_key
           /\ a.hits = 0 /\ b.hits = 0
           /\ a.sets = 1 /\ b.sets = 1
           /\ a.faults = 0 /\ b.faults = 0

\* When the two calls were made with the same show_reasoning, the value the
\* cache holds after both sets is the text each of them returned.
same_flag_collisions_idempotent ==
    (both_stored /\ other_call.show_reasoning = show_reasoning) =>
       /\ cache[other_call.task.cache_key] = json_dumps(tasks["market_data_agent"].res)
       /\ cache[other_call.task.cache_key] = json_dumps(other_call.task.res)

\* C18. Concurrent cache collisions are idempotent: when two analyses with the
\* same cache key ran concurrently, both missed and both stored, neither
\* failed, each returned the value it stored, and the cache holds the last
\* writer's value, which is equivalent to (the same text as) what either of
\* them returned.
C18_CollisionsIdempotent ==
    both_stored =>
       LET a == tasks["market_data_agent"]
           b == other_call.task
       IN  /\ a.res.tag = "Ok" /\ b.res.tag = "Ok"
           /\ a.res = a.analysis /\ b.res = b.analysis
           /\ a.cache_key \in DOMAIN cache
           /\ cache[a.cache_key] \in {json_dumps(a.res), json_dumps(b.res)}
           /\ json_loads(cache[a.cache_key]) = a.res
           /\ json_loads(cache[a.cache_key]) = b.res


\* the first part of the line that is not a blank is a discourse marker
reasoning_line(l) ==
    \E k \in 1..Len(l) : l[k] \in Markers /\ \A j \in 1..(k - 1) : l[j] = Blank

\* out is raw without the lines that satisfy Drop, the others verbatim and in
\* their order
WithoutLines(out, raw, Drop(_)) ==
    LET keep == {i \in 1..Len(raw) : ~Drop(raw[i])}
    IN  /\ Len(out) = Cardinality(keep)
        /\ \A j \in 1..Len(out) :
              out[j] = raw[CHOOSE i \in keep : Cardinality({k \in keep : k <= i}) = j]

begins_with_marker(l) == l # <<>> /\ l[1] \in Markers

\* the task's backend call answered and the task returned without a redis
\* failure
answered_task(n) ==
    tasks[n].pc = "done" /\ tasks[n].answered = 1 /\ tasks[n].faults = 0

C22_DataShapeErrors ==
    market_data = "empty" =>
       /\ cache = EmptyMap
       /\ \A n \in DOMAIN tasks :
             /\ ~provider_called(tasks[n])
             /\ tasks[n].sets = 0
             /\ finished(tasks[n]) => (tasks[n].pc = "done" /\ tasks[n].res.tag = "Err")

\* With an empty snapshot the Sentiment, Risk and Portfolio agents return
\* their error string without a provider call, and the MarketData agent makes
\* no redis get, no provider call and no redis set.
snapshot_readers_stop ==
    market_data = "empty" =>
       /\ cache = EmptyMap
       /\ \A n \in DOMAIN tasks \ {"technical_agent"} :
             /\ ~provider_called(tasks[n])
             /\ tasks[n].lookups = 0 /\ tasks[n].sets = 0
             /\ (finished(tasks[n]) /\ n # "market_data_agent") =>
                   tasks[n].res = Err("IndexError")
             /\ finished(tasks[n]) => tasks[n].res.tag # "Ok"

\* C23. Empty price history: a request for the technical agent alone with an
\* empty price history constructs and launches that agent only, the agent
\* never calls its provider, and the mapping returned has one entry, the
\* technical agent's error result.
C23_EmptyPriceHistory ==
    (agent_type = "technical" /\ price_data = "empty") =>
       /\ phase # "failed"
       /\ \A i \in 1..Len(agents) : agents[i].name = "technical_agent"
       /\ Len(agents) <= 1
       /\ DOMAIN tasks \subseteq {"technical_agent"}
       /\ \A n \in DOMAIN tasks :
             /\ ~provider_called(tasks[n])
             /\ tasks[n].pc \in {"created", "done"}
             /\ tasks[n].pc = "done" => tasks[n].res = Err("ValueError")
       /\ (phase = "done" => returned = [n \in {"technical_agent"} |-> Err("ValueError")])

C23_Witness ==
    /\ agent_type = "technical"
    /\ price_data = "empty"
    /\ market_data = "ok"
    /\ phase = "done"
    /\ DOMAIN returned = {"technical_agent"}
    /\ returned["technical_agent"] = Err("ValueError")
    /\ tasks["technical_agent"].calls = 0


\* the label on the first line of an agent's local analysis
label(n) == tasks[n].res.text[1][2]

local_done(n) == n \in DOMAIN tasks /\ tasks[n].pc = "done" /\ tasks[n].res.tag = "Ok"

\* For the 24h change 12 the agents without provider give these labels.
labels_for_12 ==
    percent_change_24h = 12 =>
       /\ local_done("risk_management_agent") =>
             tasks["risk_management_agent"].res.text[1] = <<"Risk Level:", "HIGH">>
       /\ local_done("portfolio_agent") =>
             tasks["portfolio_agent"].res.text[1] = <<"Recommended Action:", "TAKE PROFIT">>
       /\ local_done("sentiment_agent") =>
             tasks["sentiment_agent"].res.text[1] = <<"Market Sentiment:", "BULLISH">>

\* C24. Local fallback when no provider is configured: a request that names
\* no provider does not fail; its agents are constructed without provider
\* and run their heuristic instead of a provider call.
C24_LocalFallbackWithoutProvider ==
    (provider_map = <<>> /\ agent_type \in {"none"} \cup KnownTypes) =>
       /\ phase # "failed"
       /\ \A i \in 1..Len(agents) : agents[i].provider = NoProvider
       /\ (phase \in {"agents_built", "running"} => agents # <<>>)

\* C26. Fallback thresholds: an agent without provider labels the 24h change c
\* as follows.  Risk: HIGH when |c| > 10, MEDIUM when 5 < |c| <= 10, LOW
\* otherwise.  Portfolio: TAKE PROFIT when c > 5, BUY DIP when c < -5, HOLD
\* otherwise.  Sentiment: BULLISH when c > 0, BEARISH otherwise.  So |c| = 10
\* is MEDIUM, |c| = 5 is LOW and HOLD, and c = 0 is BEARISH; the text has
\* one label.
C26_FallbackThresholds ==
    LET c == percent_change_24h
        v == IF c < 0 THEN 0 - c ELSE c
    IN  /\ local_done("risk_management_agent") =>
              /\ tasks["risk_management_agent"].res.text[1][1] = "Risk Level:"
              /\ (v > 10 => label("risk_management_agent") = "HIGH")
              /\ ((v > 5 /\ v <= 10) => label("risk_management_agent") = "MEDIUM")
              /\ (v <= 5 => label("risk_management_agent") = "LOW")
        /\ local_done("portfolio_agent") =>
              /\ tasks["portfolio_agent"].res.text[1][1] = "Recommended Action:"
              /\ (c > 5 => label("portfolio_agent") = "TAKE PROFIT")
              /\ (c < 0 - 5 => label("portfolio_agent") = "BUY DIP")
              /\ ((c >= 0 - 5 /\ c <= 5) => label("portfolio_agent") = "HOLD")
        /\ local_done("sentiment_agent") =>
              /\ tasks["sentiment_agent"].res.text[1][1] = "Market Sentiment:"
              /\ (c > 0 => label("sentiment_agent") = "BULLISH")
              /\ (c <= 0 => label("sentiment_agent") = "BEARISH")
        /\ \A n \in DOMAIN tasks :
              (tasks[n].pc = "done" /\ market_data = "ok") =>
                 (local_done(n) /\ tasks[n].calls = 0 /\ Len(tasks[n].res.text[1]) = 2)

C26_Witness ==
    /\ percent_change_24h = 0 - 5
    /\ phase = "done"
    /\ returned["risk_management_agent"].text[1] = <<"Risk Level:", "LOW">>
    /\ returned["portfolio_agent"].text[1] = <<"Recommended Action:", "HOLD">>
    /\ returned["sentiment_agent"].text[1] = <<"Market Sentiment:", "BEARISH">>


ErrorKinds == {"ProviderAuthenticationError", "ProviderQuotaError",
               "ProviderConnectionError", "ModelProviderError"}

\* A failed provider call raised one kind; the failures that name
\* authentication, a rate limit or the connection are classified alike by
\* both adapters.
named_failures_agree ==
    other_call.failure # "" =>
       /\ other_call.task.raised \in ErrorKinds
       /\ other_call.failure \in {"authentication", "rate limit", "connection"} =>
             /\ other_call.task.raised = openai_classify(other_call.failure)
             /\ other_call.task.raised = anthropic_classify(other_call.failure)

\* C25. Error classification: a failed provider call is classified as one
\* kind, the kind is the same whichever adapter made the call, and a failure
\* that is none of authentication, rate limit or connection is Unknown.
C25_ErrorClassification ==
    other_call.failure # "" =>
       /\ other_call.task.raised \in ErrorKinds
       /\ other_call.task.raised = openai_classify(other_call.failure)
       /\ other_call.task.raised = anthropic_classify(other_call.failure)
       /\ other_call.failure \notin {"authentication", "rate limit", "connection"} =>
             other_call.task.raised = "ModelProviderError"


\* a step of the MarketData agent's analyze
market_step ==
    /\ "market_data_agent" \in DOMAIN tasks
    /\ "market_data_agent" \in DOMAIN tasks'
    /\ tasks["market_data_agent"].pc \notin {"done", "raised"}
    /\ tasks'["market_data_agent"] # tasks["market_data_agent"]

\* the keys whose entry a step adds, removes or replaces
written_keys ==
    {k \in DOMAIN cache \cup DOMAIN cache' :
        k \notin DOMAIN cache \/ k \notin DOMAIN cache' \/ cache[k] # cache'[k]}

\* A step of analyze writes no key but the one it looked up, analyze sets
\* at most once, and the step that returns a hit writes nothing.
market_writes_own_key ==
    [][market_step =>
          /\ written_keys \subseteq {tasks["market_data_agent"].cache_key}
          /\ tasks'["market_data_agent"].sets <= 1
          /\ tasks'["market_data_agent"].hits > tasks["market_data_agent"].hits =>
                cache' = cache]_vars

\* C27. MarketDataAgent.analyze writes at most one cache key per call, the
\* key it looked up at its start; a call that hits, and a call that returns
\* an error, leaves the cache as it was.
C27_SingleKeyWrite ==
    [][market_step =>
          /\ written_keys \subseteq {tasks["market_data_agent"].cache_key}
          /\ tasks'["market_data_agent"].sets <= 1
          /\ (/\ tasks'["market_data_agent"].pc = "done"
              /\ \/ tasks'["market_data_agent"].hits > tasks["market_data_agent"].hits
                 \/ tasks'["market_data_agent"].res.tag = "Err") =>
                cache' = cache]_vars


\* C28. HTTP aggregation is all-or-nothing: a request that got a response
\* got the five agents in the order Market Data, Sentiment, Technical, Risk,
\* Portfolio, each entry holding the result of its own agent's call; any
\* other finished request failed with an HTTP error and has no response.
C28_AllOrNothing ==
    /\ handler.pc = "responded" =>
          /\ handler.status = 200
          /\ Len(handler.response) = 5
          /\ [i \in 1..5 |-> handler.response[i].title] =
                <<"Market Data Agent", "Sentiment Agent", "Technical Agent",
                  "Risk Agent", "Portfolio Agent">>
          /\ \A i \in 1..5 :
                LET own == <<"market_data_agent", "sentiment_agent", "technical_agent",
                             "risk_management_agent", "portfolio_agent">>[i]
                IN  /\ handler.response[i].content.by = own
                    /\ handler.agent_tasks[own].state = "returned"
                    /\ handler.response[i].content = handler.agent_tasks[own].result[own]
    /\ handler.pc # "responded" => handler.response = <<>>
    /\ handler.pc = "failed" => handler.status \in {400, 500}

C28_Witness ==
    /\ handler.pc = "responded"
    /\ handler.response[1].content.tag = "Exc"
    /\ handler.response[3].content.tag = "Err"
    /\ handler.response[5].content.tag = "Ok"


open_sessions(c) == {s \in 1..Len(c.sessions) : c.sessions[s] = "open"}

holds_open_session(c) == c.session \in open_sessions(c)

\* a step of the client that is a call of `op`
client_call(op) == cmc' # cmc /\ cmc'.last.op = op

\* C29. CMCClient session lifecycle: of the sessions the client created at
\* most one is open, and it is the one the client holds.  _get_session, alone
\* or at the start of a request, returns the held session while it is open and
\* creates a session only when none is held or the held one is closed; close
\* leaves no session open and a close that finds none open changes nothing;
\* a request after close runs on a fresh open session.
C29_SessionLifecycle ==
    /\ [](/\ Cardinality(open_sessions(cmc)) <= 1
          /\ open_sessions(cmc) \subseteq {cmc.session})
    /\ [][/\ (client_call("get_session") \/ client_call("request")) =>
                /\ holds_open_session(cmc')
                /\ cmc'.last.session = cmc'.session
                /\ holds_open_session(cmc) =>
                      (cmc'.session = cmc.session /\ cmc'.sessions = cmc.sessions)
                /\ ~holds_open_session(cmc) =>
                      /\ cmc'.session = Len(cmc.sessions) + 1
                      /\ cmc'.sessions = Append(cmc.sessions, "open")
          /\ client_call("request") =>
                cmc'.in_flight = Append(cmc.in_flight, cmc'.session)
          /\ client_call("close") =>
                /\ open_sessions(cmc') = {}
                /\ cmc'.session = cmc.session
                /\ cmc'.in_flight = cmc.in_flight
                /\ ~holds_open_session(cmc) => cmc'.sessions = cmc.sessions]_vars

\* a request made after close of the first session runs on a second one
C29_Witness ==
    /\ cmc.pc = "live"
    /\ cmc.sessions = <<"closed", "open">>
    /\ cmc.session = 2
    /\ cmc.last = [op |-> "request", session |-> 2]
    /\ cmc.in_flight = <<1, 2>>


\* Only the first await of a symbol can yield a response, and the requests
\* of get_market_data are never two at a time.
first_call_only ==
    /\ \A i \in 1..Len(market_provider.calls) :
          LET call == market_provider.calls[i]
          IN  (\E j \in 1..(i - 1) : market_provider.calls[j].symbol = call.symbol)
                 <=> call.outcome = "RuntimeError"
    /\ market_provider.in_flight - market_provider.historical <= 1

\* C30. Memoized market-data fetch: every await of get_market_data on one
\* provider instance, the second and later ones of a symbol included, ends
\* with a response unless its own request to CMC failed, and at most one CMC
\* request of the instance is in flight.
C30_MemoizedFetch ==
    /\ \A i \in 1..Len(market_provider.calls) :
          market_provider.calls[i].outcome \in {"pending", "valid", "raised"}
    /\ market_provider.in_flight <= 1

====
